---- MODULE Spec2Model ----
(***************************************************************************)
(* A model of the Instagram engagement MCP server (src/src/index.ts).      *)
(*                                                                         *)
(* One server object holds the session flag isLoggedIn.  Tool calls are    *)
(* dispatched by the CallToolRequestSchema handler: it awaits              *)
(* loginToInstagram, runs one of five handlers and maps what they throw.   *)
(* Every await of a remote operation is a step of the model; the remote    *)
(* service answers each request with any outcome it can produce.           *)
(*                                                                         *)
(* Calls overlap in loginToInstagram, the only place where they write      *)
(* shared state.  A handler body reads and writes only its own locals, so  *)
(* the model keeps one handler frame and runs handler bodies one at a      *)
(* time.                                                                   *)
(***************************************************************************)
EXTENDS Integers, Sequences, FiniteSets, TLC

\* ------------------------------------------------------------------ bounds

\* Largest page a comment or follower feed serves.
MaxPageSize == 2
\* Page requests of one accumulation loop that the model follows.
MaxPages == 3
\* Largest maxComments / sampleSize argument the callers pass.
MaxTarget == 3
\* Largest page the posts feed serves.
MaxPostPage == 120

\* Two tool calls, which the transport may dispatch one while the other is
\* still in progress.
Calls == {1, 2}

Min(a, b) == IF a < b THEN a ELSE b
Max(a, b) == IF a > b THEN a ELSE b

\* An optional argument is a set with at most one element.
Default(opt, d) == IF opt = {} THEN d ELSE CHOOSE x \in opt : TRUE

\* ----------------------------------------------------------------- strings
\* A string is a sequence of one-character strings.

Lower == <<"a","b","c","d","e","f","g","h","i","j","k","l","m",
           "n","o","p","q","r","s","t","u","v","w","x","y","z">>
Upper == <<"A","B","C","D","E","F","G","H","I","J","K","L","M",
           "N","O","P","Q","R","S","T","U","V","W","X","Y","Z">>
Digits == <<"0","1","2","3","4","5","6","7","8","9">>

Range(s) == {s[i] : i \in 1..Len(s)}

AlnumChars == Range(Lower) \cup Range(Upper) \cup Range(Digits)
\* [A-Za-z0-9_-]
ShortcodeChars == AlnumChars \cup {"_", "-"}
\* [A-Za-z0-9._]
UsernameChars == AlnumChars \cup {".", "_"}

HTTPS == <<"h","t","t","p","s",":","/","/">>
WWW == <<"w","w","w",".">>
HOST == <<"i","n","s","t","a","g","r","a","m",".","c","o","m">>
PSEG == <<"/","p","/">>

\* Whether p occurs in s at position i (1-based).
MatchAt(s, p, i) ==
    /\ i >= 1
    /\ i + Len(p) - 1 <= Len(s)
    /\ \A j \in 1..Len(p) : s[i + j - 1] = p[j]

\* /^https:\/\/(www\.)?instagram\.com\/p\/[A-Za-z0-9_-]+\/?/.test(url)
\* The pattern is not anchored at its end, so the optional "/" and whatever
\* follows the shortcode do not matter.
isValidPostUrl(url) ==
    /\ MatchAt(url, HTTPS, 1)
    /\ \E w \in {0, Len(WWW)} :
          /\ w = 0 \/ MatchAt(url, WWW, Len(HTTPS) + 1)
          /\ MatchAt(url, HOST \o PSEG, Len(HTTPS) + w + 1)
          /\ LET k == Len(HTTPS) + w + Len(HOST) + Len(PSEG) + 1
             IN  k <= Len(url) /\ url[k] \in ShortcodeChars

\* The longest run of shortcode characters of s that starts at position i.
RECURSIVE RunFrom(_, _)
RunFrom(s, i) ==
    IF i <= Len(s) /\ s[i] \in ShortcodeChars
    THEN <<s[i]>> \o RunFrom(s, i + 1)
    ELSE <<>>

\* url.match(/\/p\/([A-Za-z0-9_-]+)/): the leftmost "/p/" that a shortcode
\* character follows; '' when there is none.
extractPostIdFromUrl(url) ==
    LET hits == {i \in 1..Len(url) :
                    /\ MatchAt(url, PSEG, i)
                    /\ RunFrom(url, i + Len(PSEG)) # <<>>}
    IN  IF hits = {} THEN <<>>
        ELSE LET first == CHOOSE i \in hits : \A j \in hits : i <= j
             IN  RunFrom(url, first + Len(PSEG))

\* A check that accepts every string.
AcceptsAll(username) == TRUE

\* A check that accepts every string of one character or more.
IsNonEmpty(username) == Len(username) >= 1

\* /^[A-Za-z0-9._]+$/.test(username)
isValidUsername(username) ==
    /\ Len(username) >= 1
    /\ \A i \in 1..Len(username) : username[i] \in UsernameChars

\* ------------------------------------------------------------------ inputs

UrlPlain == HTTPS \o HOST \o PSEG \o <<"a","B">>
UrlWww == HTTPS \o WWW \o HOST \o PSEG \o <<"x","-","1","/">>
UrlNoCode == HTTPS \o HOST \o PSEG
HandleA == <<"a",".","b">>
HandleB == <<"c","_","9">>
HandleBad == <<"a","-","b">>


PostUrlArgs == {UrlPlain, UrlWww, UrlNoCode, HandleA}
TargetArgs == {UrlPlain, HandleA, HandleBad}
CountArgs == {{}} \cup {{n} : n \in -1..MaxTarget}

ToolNames == {"analyze_post_comments", "compare_accounts", "extract_demographics",
              "identify_leads", "generate_engagement_report", "no_such_tool"}

\* ------------------------------------------------------------------ errors

\* What the remote client throws: its error classes by name, "Error" for
\* anything else.
RemoteErrors == {"IgNotFoundError", "IgLoginRequiredError", "IgCheckpointError",
                 "IgRequestsLimitError", "Error"}
AuthInvalidating == {"IgLoginRequiredError", "IgCheckpointError"}

McpError(code, msg) == [mcp |-> TRUE, code |-> code, name |-> "McpError", msg |-> msg]
RawError(errName) == [mcp |-> FALSE, code |-> "", name |-> errName, msg |-> errName]

\* The answer of a remote operation: a value or a thrown error.
Ok(v) == [ok |-> TRUE, err |-> "", v |-> v]
Thrown(e) == [ok |-> FALSE, err |-> e]

\* ------------------------------------------------------------------- state

VARIABLES
    isLoggedIn,   \* InstagramEngagementServer.isLoggedIn
    cpc,          \* per call: where the CallTool handler stands
    trace,        \* per call: validations done and remote operations requested
    result,       \* per call: what the CallTool handler returned or threw
    authFail,     \* per call: a remote operation failed with an auth-invalidating error
    lastErr,      \* per call: the error its login or its last failed page request threw
    loginFailed,  \* a login has failed and no handler has been entered since
    owner,        \* the call whose handler body runs, 0 when none does
    name,         \* request.params.name of that call
    args,         \* request.params.arguments of that call
    hpc,          \* the await the handler body stands at
    loc,          \* the handler body's local variables
    served        \* sizes of the pages the feed served to this handler body

vars == <<isLoggedIn, cpc, trace, result, authFail, lastErr, loginFailed, owner, name, args, hpc, loc, served>>
frame == <<owner, name, args, hpc, loc, served>>

NoResult == [kind |-> "none", code |-> "", msg |-> "", value |-> <<>>]
NoArgs == [none |-> TRUE]
NoLoc == [none |-> TRUE]

Init ==
    /\ isLoggedIn = FALSE
    /\ cpc = [c \in Calls |-> "idle"]
    /\ trace = [c \in Calls |-> <<>>]
    /\ result = [c \in Calls |-> NoResult]
    /\ authFail = [c \in Calls |-> FALSE]
    /\ lastErr = [c \in Calls |-> ""]
    /\ loginFailed = FALSE
    /\ owner = 0
    /\ name = "none"
    /\ args = NoArgs
    /\ hpc = "none"
    /\ loc = NoLoc
    /\ served = <<>>

\* -------------------------------------------------------------- dispatcher

\* A catch block that resets isLoggedIn for every error.
DispatcherCatchResetsAlways(error) ==
    [invalidate |-> TRUE, code |-> error.code, msg |-> error.msg]

\* The catch block of the CallTool handler: what it throws for an error a
\* handler threw, and whether it resets isLoggedIn.
DispatcherCatch(error) ==
    IF error.mcp
    THEN [invalidate |-> FALSE, code |-> error.code, msg |-> error.msg]
    ELSE IF error.name = "IgNotFoundError"
    THEN [invalidate |-> FALSE, code |-> "InvalidParams",
          msg |-> "Instagram resource not found"]
    ELSE IF error.name \in AuthInvalidating
    THEN [invalidate |-> TRUE, code |-> "InternalError",
          msg |-> "Instagram login required or challenge encountered"]
    ELSE IF error.name = "IgRequestsLimitError"
    THEN [invalidate |-> FALSE, code |-> "InternalError",
          msg |-> "Instagram rate limit hit"]
    ELSE [invalidate |-> FALSE, code |-> "InternalError",
          msg |-> "An unexpected error occurred while executing the tool"]

\* The handler body of call c threw error into the dispatcher's catch.
Throw(c, error) ==
    LET d == DispatcherCatch(error)
    IN  /\ isLoggedIn' = IF d.invalidate THEN FALSE ELSE isLoggedIn
        /\ cpc' = [cpc EXCEPT ![c] = "done"]
        /\ result' = [result EXCEPT ![c] =
                         [kind |-> "error", code |-> d.code, msg |-> d.msg, value |-> <<>>]]
        /\ hpc' = "end"

\* The handler body of call c returned value.
Return(c, value) ==
    /\ isLoggedIn' = isLoggedIn
    /\ cpc' = [cpc EXCEPT ![c] = "done"]
    /\ result' = [result EXCEPT ![c] =
                     [kind |-> "ok", code |-> "", msg |-> "", value |-> value]]
    /\ hpc' = "end"

\* The handler body goes on to its next await.
Goto(label) ==
    /\ hpc' = label
    /\ UNCHANGED <<isLoggedIn, cpc, result>>

\* Call c requested a remote operation and got answer o.
Requested(c, op, o) ==
    /\ trace' = [trace EXCEPT ![c] = Append(@, op)]
    /\ authFail' = [authFail EXCEPT ![c] = @ \/ (~o.ok /\ o.err \in AuthInvalidating)]
    /\ lastErr' = [lastErr EXCEPT ![c] = IF op = "feed.items" /\ ~o.ok THEN o.err ELSE @]
    /\ loginFailed' = loginFailed

\* A login that always returns at once.
LoginAlwaysReturnsAtOnce == TRUE

\* A login that never returns at once.
LoginNeverReturnsAtOnce == FALSE

\* loginToInstagram up to its await: TRUE when it returns at once.
LoginReturnsAtOnce == isLoggedIn

\* A tool call arrives: the handler calls loginToInstagram, which returns
\* true when the session is logged in and otherwise requests the login.
Request(c) ==
    /\ cpc[c] = "idle"
    /\ IF LoginReturnsAtOnce
       THEN /\ cpc' = [cpc EXCEPT ![c] = "ready"]
            /\ UNCHANGED trace
       ELSE /\ cpc' = [cpc EXCEPT ![c] = "login"]
            /\ trace' = [trace EXCEPT ![c] = Append(@, "authenticate")]
    /\ UNCHANGED <<isLoggedIn, result, authFail, lastErr, loginFailed, frame>>

\* A handler check that reports a failed login as an invalid argument.
NotLoggedInAsInvalid == McpError("InvalidParams", "Failed to authenticate with Instagram")

\* if (!loggedIn) throw new McpError(ErrorCode.InternalError, ...)
NotLoggedIn == McpError("InternalError", "Failed to authenticate with Instagram")

\* ig.account.login resolves or throws.
LoginAnswers == {Thrown(e) : e \in RemoteErrors} \cup {Ok(0)}

\* ig.account.login answers: loginToInstagram sets the flag and returns
\* true, or catches the error and returns false, and the handler throws.
LoginResolve(c) ==
    /\ cpc[c] = "login"
    /\ \E o \in LoginAnswers :
          /\ lastErr' = [lastErr EXCEPT ![c] = IF o.ok THEN @ ELSE o.err]
          /\ loginFailed' = (loginFailed \/ ~o.ok)
          /\ IF o.ok
             THEN /\ isLoggedIn' = TRUE
                  /\ cpc' = [cpc EXCEPT ![c] = "ready"]
                  /\ UNCHANGED result
             ELSE /\ isLoggedIn' = isLoggedIn
                  /\ cpc' = [cpc EXCEPT ![c] = "done"]
                  /\ result' = [result EXCEPT ![c] =
                                   [kind |-> "error", code |-> NotLoggedIn.code,
                                    msg |-> NotLoggedIn.msg, value |-> <<>>]]
    /\ UNCHANGED <<trace, authFail, frame>>


\* ------------------------------------------------------------ tool inputs

\* Accounts a compare_accounts call names at most.
MaxAccounts == 2
\* Largest follower count a profile reports.
MaxFollowers == 2

Handles == {HandleA, HandleB, HandleBad}
HandleLists == UNION {[1..n -> Handles] : n \in 0..MaxAccounts}
AccountArgs == {[kind |-> "missing", list |-> <<>>], [kind |-> "notArray", list |-> <<>>]}
               \cup {[kind |-> "array", list |-> l] : l \in HandleLists}
DefaultMetrics == {"followers", "engagement", "posts"}
MetricsArgs == {{}, {{"followers"}}}

AnalyzeArgs == [postUrl : PostUrlArgs, maxComments : CountArgs]
CompareArgs == [accounts : AccountArgs, metrics : MetricsArgs]
SomeAnalyzeArgs == [postUrl : {UrlPlain, UrlNoCode}, maxComments : {{}, {1}}]
SomeCompareArgs ==
    [accounts : {[kind |-> "notArray", list |-> <<>>], [kind |-> "array", list |-> <<>>],
                 [kind |-> "array", list |-> <<HandleA>>],
                 [kind |-> "array", list |-> <<HandleBad>>]},
     metrics : {{}}]

\* ------------------------------------------------------ the remote service

UserId == 17
MediaPk == 7
FollowerCounts == 0..MaxFollowers

\* ig.media.getByUrl: the method is missing (a TypeError), throws, or
\* returns media info with a pk or without one (0).
GetByUrlAnswers == {Thrown("TypeError")} \cup {Thrown(e) : e \in RemoteErrors}
                   \cup {Ok(0), Ok(MediaPk)}
IdAnswers == {Thrown(e) : e \in RemoteErrors} \cup {Ok(UserId)}
\* ig.user.info: the profile, with its follower_count ({n}) or without ({}).
InfoAnswers == {Thrown(e) : e \in RemoteErrors}
               \cup {Ok([follower_count |-> f]) : f \in {{}} \cup {{n} : n \in FollowerCounts}}
\* followerCount > 0, which is false for undefined.
Positive(followerCount) == \E n \in followerCount : n > 0
\* feed.items(): a page and the feed's isMoreAvailable() after it.
PageAnswers == {Thrown(e) : e \in RemoteErrors}
               \cup {Ok([n |-> n, more |-> m]) : n \in 0..MaxPageSize, m \in BOOLEAN}

RECURSIVE Sum(_)
Sum(s) == IF s = <<>> THEN 0 ELSE s[1] + Sum(Tail(s))

\* The n items a feed serves after `before` items: the feed numbers its items.
FeedItems(before, n) == [i \in 1..n |-> before + i]

\* Array.prototype.slice(0, end).
Slice(a, end) ==
    LET e == IF end < 0 THEN Max(Len(a) + end, 0) ELSE Min(end, Len(a))
    IN  SubSeq(a, 1, e)

\* ----------------------------------------------------------- dispatch

\* The login has returned true: the switch on request.params.name.
Enter(c, t, a) ==
    /\ cpc[c] = "ready"
    /\ owner = 0
    /\ owner' = c
    /\ name' = t
    /\ args' = a
    /\ hpc' = "start"
    /\ loc' = NoLoc
    /\ served' = <<>>
    /\ cpc' = [cpc EXCEPT ![c] = "run"]
    /\ loginFailed' = FALSE
    /\ UNCHANGED <<isLoggedIn, trace, result, authFail, lastErr>>

\* default: throw new McpError(ErrorCode.MethodNotFound, ...)
DefaultCase(c) ==
    /\ owner = c /\ cpc[c] = "run" /\ hpc = "start"
    /\ name = "no_such_tool"
    /\ Throw(c, McpError("MethodNotFound", "Tool not found"))
    /\ UNCHANGED <<trace, authFail, lastErr, loginFailed, owner, name, args, loc, served>>

\* The response of call c has been sent; the slot takes the next request.
Complete(c) ==
    /\ cpc[c] = "done"
    /\ cpc' = [cpc EXCEPT ![c] = "idle"]
    /\ trace' = [trace EXCEPT ![c] = <<>>]
    /\ result' = [result EXCEPT ![c] = NoResult]
    /\ authFail' = [authFail EXCEPT ![c] = FALSE]
    /\ lastErr' = [lastErr EXCEPT ![c] = ""]
    /\ loginFailed' = loginFailed
    /\ IF owner = c
       THEN /\ owner' = 0 /\ name' = "none" /\ args' = NoArgs
            /\ hpc' = "none" /\ loc' = NoLoc /\ served' = <<>>
       ELSE UNCHANGED frame
    /\ UNCHANGED isLoggedIn

\* Call c's handler body stands at label of tool t.
At(c, t, label) == owner = c /\ cpc[c] = "run" /\ name = t /\ hpc = label

Validated(c) == trace' = [trace EXCEPT ![c] = Append(@, "validate")]

\* ------------------------------------------------------ getMediaIdFromUrl

NullId == [kind |-> "null", pk |-> 0, code |-> <<>>]

\* getMediaIdFromUrl, given what ig.media.getByUrl answered.
getMediaIdFromUrl(url, o) ==
    LET shortcode == extractPostIdFromUrl(url)
    IN  IF shortcode = <<>> THEN NullId
        ELSE IF ~o.ok THEN [kind |-> "shortcode", pk |-> 0, code |-> shortcode]
        ELSE IF o.v # 0 THEN [kind |-> "pk", pk |-> o.v, code |-> <<>>]
        ELSE NullId

TargetUrl == IF name = "analyze_post_comments" THEN args.postUrl ELSE args.accountOrPostUrl

AfterMediaId ==
    IF name = "analyze_post_comments" THEN "comments"
    ELSE IF name = "extract_demographics" THEN "likers"
    ELSE "leadComments"

\* const mediaId = await this.getMediaIdFromUrl(url); if (!mediaId) throw ...
ResolveMedia(c) ==
    /\ owner = c /\ cpc[c] = "run" /\ hpc = "getMediaId"
    /\ \E o \in GetByUrlAnswers :
          LET mediaId == getMediaIdFromUrl(TargetUrl, o)
          IN  /\ IF extractPostIdFromUrl(TargetUrl) # <<>> /\ o.err # "TypeError"
                 THEN Requested(c, "media.getByUrl", o)
                 ELSE UNCHANGED <<trace, authFail, lastErr, loginFailed>>
              /\ IF mediaId.kind = "null"
                 THEN /\ Throw(c, McpError("InvalidParams",
                                           "Could not extract media ID from post URL."))
                      /\ UNCHANGED loc
                 ELSE /\ Goto(AfterMediaId)
                      /\ loc' = [loc EXCEPT !.mediaId = mediaId]
    /\ UNCHANGED <<owner, name, args, served>>

\* -------------------------------------------------- analyze_post_comments

DefaultMaxComments == 100

\* if (commentCount >= maxComments) break; ... while (isMoreAvailable())
\* A loop that goes on for as long as the feed reports more pages.
CommentsLoopEndsWhenDry(commentCount, maxComments, more) == ~more

CommentsLoopEnds(commentCount, maxComments, more) ==
    commentCount >= maxComments \/ ~more

\* comments = comments.slice(0, maxComments)
TrimComments(comments, maxComments) == Slice(comments, maxComments)

AnalyzeStart(c) ==
    /\ At(c, "analyze_post_comments", "start")
    /\ Validated(c)
    /\ IF ~isValidPostUrl(args.postUrl)
       THEN /\ Throw(c, McpError("InvalidParams", "Invalid post URL format."))
            /\ UNCHANGED loc
       ELSE /\ Goto("getMediaId")
            /\ loc' = [mediaId |-> NullId, comments |-> <<>>, commentCount |-> 0]
    /\ UNCHANGED <<authFail, lastErr, loginFailed, owner, name, args, served>>

\* One turn of the do-while loop: await commentsFeed.items(), and what
\* follows it up to the next await or the return.
AnalyzeItems(c) ==
    /\ At(c, "analyze_post_comments", "comments")
    /\ Len(served) < MaxPages
    /\ \E o \in PageAnswers :
          LET maxComments == Default(args.maxComments, DefaultMaxComments)
          IN  /\ Requested(c, "feed.items", o)
              /\ IF ~o.ok
                 THEN /\ Throw(c, IF o.err = "IgNotFoundError"
                                  THEN McpError("InvalidParams",
                                                "Post not found or access denied.")
                                  ELSE McpError("InternalError",
                                                "Failed to fetch or analyze comments"))
                      /\ UNCHANGED <<loc, served>>
                 ELSE LET items == FeedItems(Sum(served), o.v.n)
                          comments == loc.comments \o items
                          commentCount == loc.commentCount + Len(items)
                      IN  /\ served' = Append(served, o.v.n)
                          /\ IF CommentsLoopEnds(commentCount, maxComments, o.v.more)
                             THEN LET trimmed == TrimComments(comments, maxComments)
                                  IN  /\ loc' = [loc EXCEPT !.comments = trimmed,
                                                            !.commentCount = commentCount]
                                      /\ Return(c, trimmed)
                             ELSE /\ loc' = [loc EXCEPT !.comments = comments,
                                                        !.commentCount = commentCount]
                                  /\ Goto("comments")
    /\ UNCHANGED <<owner, name, args>>


\* -------------------------------------------------------- compare_accounts

\* Posts as the posts feed serves them in a first page.
SamplePosts == {[like_count |-> 0, comment_count |-> 0],
                [like_count |-> 3, comment_count |-> 1]}
PostPages == UNION {[1..n -> SamplePosts] : n \in 0..MaxPageSize}
PostPageAnswers == {Thrown(e) : e \in RemoteErrors} \cup {Ok(p) : p \in PostPages}

\* posts.reduce((sum, post) => sum + (post.like_count || 0), 0) over the
\* posts lo..hi, summed by halves.
RECURSIVE LikesIn(_, _, _)
LikesIn(posts, lo, hi) ==
    IF lo > hi THEN 0
    ELSE IF lo = hi THEN posts[lo].like_count
    ELSE LET mid == (lo + hi) \div 2
         IN  LikesIn(posts, lo, mid) + LikesIn(posts, mid + 1, hi)
SumLikes(posts) == LikesIn(posts, 1, Len(posts))

RECURSIVE CommentsIn(_, _, _)
CommentsIn(posts, lo, hi) ==
    IF lo > hi THEN 0
    ELSE IF lo = hi THEN posts[lo].comment_count
    ELSE LET mid == (lo + hi) \div 2
         IN  CommentsIn(posts, lo, mid) + CommentsIn(posts, mid + 1, hi)
SumComments(posts) == CommentsIn(posts, 1, Len(posts))

\* A quotient num / den (den > 0) in hundredths, rounded as toFixed(2) rounds.
Hundredths(num, den) == (2 * 100 * num + den) \div (2 * den)

\* ((avgLikes + avgComments) / followerCount) * 100 in hundredths, for a
\* non-empty list of posts and followerCount > 0.
RateOf(posts, followerCount) ==
    Hundredths((SumLikes(posts) + SumComments(posts)) * 100,
               Len(posts) * Default(followerCount, 0))

\* let engagementRate = 0; if (followerCount > 0) { ... if (recentPosts.length > 0) ... }
CompareRate(recentPosts, followerCount) ==
    IF Positive(followerCount) /\ Len(recentPosts) > 0
    THEN RateOf(recentPosts, followerCount) ELSE 0

\* comparisonResults[username] = entry
Put(m, k, e) == [h \in DOMAIN m \cup {k} |-> IF h = k THEN e ELSE m[h]]

CompareEntry(userInfo, rate, metrics) ==
    [kind |-> "ok", userId |-> UserId,
     followers |-> IF "followers" \in metrics THEN userInfo.follower_count ELSE {},
     engagementRate |-> IF "engagement" \in metrics THEN {rate} ELSE {},
     error |-> ""]

\* The catch inside the for loop: the entry an error leaves.
CompareErrorEntry(err) ==
    [kind |-> "error", userId |-> 0, followers |-> {}, engagementRate |-> {},
     error |-> IF err = "IgNotFoundError" THEN "Account not found."
               ELSE "Failed to fetch data"]

\* A catch that lets every error but "not found" escape the loop.
CompareCatchesNotFound(err) == err = "IgNotFoundError"

\* What the catch inside the for loop does with the error of a lookup.
CompareCatches(err) == TRUE

CompareStart(c) ==
    /\ At(c, "compare_accounts", "start")
    /\ Validated(c)
    /\ IF args.accounts.kind = "missing"
          \/ (args.accounts.kind = "array" /\ Len(args.accounts.list) = 0)
       THEN /\ Throw(c, McpError("InvalidParams",
                                 "At least one account handle must be provided."))
            /\ UNCHANGED loc
       ELSE IF args.accounts.kind = "notArray"
       THEN /\ Throw(c, RawError("TypeError"))
            /\ UNCHANGED loc
       ELSE IF \E i \in 1..Len(args.accounts.list) : ~isValidUsername(args.accounts.list[i])
       THEN /\ Throw(c, McpError("InvalidParams",
                                 "One or more account handles are invalid."))
            /\ UNCHANGED loc
       ELSE /\ Goto("getId")
            /\ loc' = [i |-> 1, comparisonResults |-> [h \in {} |-> 0],
                       followerCount |-> {}, outcomes |-> <<>>]
    /\ UNCHANGED <<authFail, lastErr, loginFailed, owner, name, args, served>>

\* The loop body has finished for accounts[loc.i] with entry e: the next
\* account, or return { results: comparisonResults }.
CompareNext(c, e, how) ==
    LET results == Put(loc.comparisonResults, args.accounts.list[loc.i], e)
        l2 == [loc EXCEPT !.comparisonResults = results, !.i = loc.i + 1,
                          !.outcomes = Append(loc.outcomes, how)]
    IN  /\ loc' = l2
        /\ IF loc.i < Len(args.accounts.list)
           THEN Goto("getId")
           ELSE Return(c, results)

\* A lookup of the loop body threw err.
CompareFailed(c, err) ==
    IF CompareCatches(err)
    THEN CompareNext(c, CompareErrorEntry(err), "failed")
    ELSE /\ Throw(c, RawError(err))
         /\ UNCHANGED loc

\* const userId = await this.ig.user.getIdByUsername(username)
CompareGetId(c) ==
    /\ At(c, "compare_accounts", "getId")
    /\ \E o \in IdAnswers :
          /\ Requested(c, "user.getIdByUsername", o)
          /\ IF ~o.ok
             THEN CompareFailed(c, o.err)
             ELSE /\ Goto("info")
                  /\ UNCHANGED loc
    /\ UNCHANGED <<owner, name, args, served>>

\* const userInfo = await this.ig.user.info(userId)
CompareInfo(c) ==
    /\ At(c, "compare_accounts", "info")
    /\ \E o \in InfoAnswers :
          /\ Requested(c, "user.info", o)
          /\ IF ~o.ok
             THEN CompareFailed(c, o.err)
             ELSE IF Positive(o.v.follower_count)
             THEN /\ Goto("posts")
                  /\ loc' = [loc EXCEPT !.followerCount = o.v.follower_count]
             ELSE CompareNext(c, CompareEntry(o.v, CompareRate(<<>>, o.v.follower_count),
                                              Default(args.metrics, DefaultMetrics)),
                              "succeeded")
    /\ UNCHANGED <<owner, name, args, served>>

\* const recentPosts = await postsFeed.items()
ComparePosts(c) ==
    /\ At(c, "compare_accounts", "posts")
    /\ \E o \in PostPageAnswers :
          /\ Requested(c, "feed.items", o)
          /\ IF ~o.ok
             THEN CompareFailed(c, o.err)
             ELSE CompareNext(c, CompareEntry([follower_count |-> loc.followerCount],
                                              CompareRate(o.v, loc.followerCount),
                                              Default(args.metrics, DefaultMetrics)),
                              "succeeded")
          /\ served' = IF o.ok THEN Append(served, Len(o.v)) ELSE served
    /\ UNCHANGED <<owner, name, args>>

\* ---------------------------------------------------- extract_demographics

DefaultSampleSize == 50

DemographicsArgs == [accountOrPostUrl : TargetArgs, sampleSize : CountArgs]
SomeDemographicsArgs == [accountOrPostUrl : TargetArgs, sampleSize : {{}, {1}}]

\* ig.media.likers: a response with its users (likersResponse.users || []).
LikersAnswers == {Thrown(e) : e \in RemoteErrors}
                 \cup {Ok(FeedItems(0, n)) : n \in 0..MaxPageSize}

\* if (fetchedUsers.length >= sampleSize) break; ... while (isMoreAvailable())
FollowersLoopEnds(fetched, sampleSize, more) == fetched >= sampleSize \/ ~more

\* users = fetchedUsers.slice(0, sampleSize)
TrimUsers(fetchedUsers, sampleSize) == Slice(fetchedUsers, sampleSize)

\* The feed numbers its users; the odd ones are private accounts.
IsPrivate(u) == u % 2 = 1

\* A result that computes the account-type ratios for every sample.
DemographicsAlways(users) ==
    [message |-> FALSE, sampleAnalyzed |-> Len(users),
     privateNum |-> Cardinality({i \in 1..Len(users) : IsPrivate(users[i])}),
     ratioDen |-> Len(users), users |-> users]

\* What the handler returns for the sampled users: the 'no users' message,
\* or the demographics with the account-type ratios (numerator, denominator).
Demographics(users) ==
    IF Len(users) = 0
    THEN [message |-> TRUE, sampleAnalyzed |-> 0, privateNum |-> 0, ratioDen |-> 0,
          users |-> users]
    ELSE [message |-> FALSE, sampleAnalyzed |-> Len(users),
          privateNum |-> Cardinality({i \in 1..Len(users) : IsPrivate(users[i])}),
          ratioDen |-> Len(users), users |-> users]

\* An outer catch that reports every remote error as not found.
HandlerCatchAllNotFound(err, notFoundMsg, otherMsg) == McpError("InvalidParams", notFoundMsg)

\* The outer catch of a handler: the McpError it throws for a remote error.
HandlerCatch(err, notFoundMsg, otherMsg) ==
    IF err = "IgNotFoundError" THEN McpError("InvalidParams", notFoundMsg)
    ELSE McpError("InternalError", otherMsg)

DemographicsStart(c) ==
    /\ At(c, "extract_demographics", "start")
    /\ Validated(c)
    /\ IF isValidPostUrl(args.accountOrPostUrl)
       THEN /\ Goto("getMediaId")
            /\ loc' = [targetType |-> "post", mediaId |-> NullId, fetchedUsers |-> <<>>]
       ELSE IF isValidUsername(args.accountOrPostUrl)
       THEN /\ Goto("getId")
            /\ loc' = [targetType |-> "account", mediaId |-> NullId, fetchedUsers |-> <<>>]
       ELSE /\ Throw(c, McpError("InvalidParams",
                         "Invalid input. Provide a valid Instagram username or post URL."))
            /\ UNCHANGED loc
    /\ UNCHANGED <<authFail, lastErr, loginFailed, owner, name, args, served>>

\* const userId = await this.ig.user.getIdByUsername(accountOrPostUrl), in
\* its own try/catch.
DemographicsGetId(c) ==
    /\ At(c, "extract_demographics", "getId")
    /\ \E o \in IdAnswers :
          /\ Requested(c, "user.getIdByUsername", o)
          /\ IF ~o.ok
             THEN Throw(c, HandlerCatch(o.err, "Account not found.", "Failed to get user ID"))
             ELSE Goto("followers")
    /\ UNCHANGED <<owner, name, args, loc, served>>

\* const likersResponse = await this.ig.media.likers(targetId)
DemographicsLikers(c) ==
    /\ At(c, "extract_demographics", "likers")
    /\ \E o \in LikersAnswers :
          LET sampleSize == Default(args.sampleSize, DefaultSampleSize)
          IN  /\ Requested(c, "media.likers", o)
              /\ IF ~o.ok
                 THEN /\ Throw(c, HandlerCatch(o.err, "Post not found or access denied.",
                                   "Failed to fetch users for demographic analysis"))
                      /\ UNCHANGED loc
                 ELSE LET users == TrimUsers(o.v, sampleSize)
                      IN  /\ loc' = [loc EXCEPT !.fetchedUsers = users]
                          /\ Return(c, Demographics(users))
    /\ UNCHANGED <<owner, name, args, served>>

\* One turn of the do-while loop over followersFeed.items().
DemographicsFollowers(c) ==
    /\ At(c, "extract_demographics", "followers")
    /\ Len(served) < MaxPages
    /\ \E o \in PageAnswers :
          LET sampleSize == Default(args.sampleSize, DefaultSampleSize)
          IN  /\ Requested(c, "feed.items", o)
              /\ IF ~o.ok
                 THEN /\ Throw(c, HandlerCatch(o.err, "Account not found or access denied.",
                                   "Failed to fetch users for demographic analysis"))
                      /\ UNCHANGED <<loc, served>>
                 ELSE LET fetchedUsers == loc.fetchedUsers \o FeedItems(Sum(served), o.v.n)
                      IN  /\ served' = Append(served, o.v.n)
                          /\ IF FollowersLoopEnds(Len(fetchedUsers), sampleSize, o.v.more)
                             THEN LET users == TrimUsers(fetchedUsers, sampleSize)
                                  IN  /\ loc' = [loc EXCEPT !.fetchedUsers = users]
                                      /\ Return(c, Demographics(users))
                             ELSE /\ loc' = [loc EXCEPT !.fetchedUsers = fetchedUsers]
                                  /\ Goto("followers")
    /\ UNCHANGED <<owner, name, args>>


\* ---------------------------------------------- generate_engagement_report

\* Latest day (since the epoch) a startDate or endDate names.
MaxDay == 2

maxPostsToFetch == 200

DateArgs == {{}} \cup {{d} : d \in 0..MaxDay}
ReportArgs == [account : {HandleA, HandleBad}, startDate : DateArgs, endDate : DateArgs]
SomeReportArgs == [account : {HandleA, HandleBad}, startDate : {{}}, endDate : {{}, {0}}]

DaySeconds == 24 * 60 * 60

\* The i-th post the posts feed serves, newest first: the first taken at
\* 00:00:00 of day 2, the second at 23:59:59 of day 1.
ServedPost(i) ==
    [id |-> i, taken_at |-> 2 * DaySeconds + 1 - i, like_count |-> i % 3,
     comment_count |-> 1]
ServedPosts(before, n) == [i \in 1..n |-> ServedPost(before + i)]

PostPageSizes == {0, MaxPostPage \div 2, MaxPostPage}
ReportPageAnswers == {Thrown(e) : e \in RemoteErrors}
                     \cup {Ok([n |-> n, more |-> m]) : n \in PostPageSizes, m \in BOOLEAN}

\* if (postCount >= maxPostsToFetch) break; ...
\* while (postsFeed.isMoreAvailable() && postCount < maxPostsToFetch)
ReportLoopEnds(postCount, more) ==
    postCount >= maxPostsToFetch \/ ~(more /\ postCount < maxPostsToFetch)

\* The posts the loop hands to the date filter.
FetchedPosts(allPosts) == allPosts

\* new Date(date).getTime() / 1000 for a YYYY-MM-DD date, given as its day.
DateSeconds(day) == day * DaySeconds

\* const start = startDate ? ... : null, as the set of its non-null values.
StartOf(startDate) == {DateSeconds(d) : d \in startDate}
\* An end that is the first second of the end date.
EndOfMidnight(endDate) == {DateSeconds(d) : d \in endDate}

\* const end = endDate ? ... + (24 * 60 * 60 - 1) : null
EndOf(endDate) == {DateSeconds(d) + (DaySeconds - 1) : d \in endDate}

\* The filter callback: a null or zero bound (start ? ... : true) passes.
InRange(post, start, end) ==
    /\ \A b \in start : b = 0 \/ post.taken_at >= b
    /\ \A b \in end : b = 0 \/ post.taken_at <= b

\* allPosts.filter(post => ...)
Filter(posts, start, end) == SelectSeq(posts, LAMBDA post : InRange(post, start, end))

\* All but the i-th element.
Without(s, i) == SubSeq(s, 1, i - 1) \o SubSeq(s, i + 1, Len(s))

\* The first k posts as fetched, unsorted.
FirstPosts(posts, k) == SubSeq(posts, 1, Min(k, Len(posts)))

\* [...posts].sort((a, b) => b.like_count - a.like_count).slice(0, k): the
\* sort is stable, so the first of the posts with the most likes leads.
RECURSIVE TopByLikes(_, _)
TopByLikes(posts, k) ==
    IF k = 0 \/ posts = <<>> THEN <<>>
    ELSE LET best == CHOOSE i \in 1..Len(posts) :
                        /\ \A j \in 1..Len(posts) : posts[j].like_count <= posts[i].like_count
                        /\ \A j \in 1..(i - 1) : posts[j].like_count < posts[i].like_count
         IN  <<posts[best]>> \o TopByLikes(Without(posts, best), k - 1)

\* A rate that takes a follower count of 0 or none for 1.
ReportRateOfOne(recentPosts, followerCount) ==
    RateOf(recentPosts, {Max(1, Default(followerCount, 0))})

\* followerCount > 0 ? ((avgLikesPerPost + avgCommentsPerPost) / followerCount) * 100 : 0
ReportRate(recentPosts, followerCount) ==
    IF Positive(followerCount) THEN RateOf(recentPosts, followerCount) ELSE 0

\* What the handler returns for the fetched posts.
ReportOf(allPosts, followerCount, startDate, endDate) ==
    LET recentPosts == Filter(allPosts, StartOf(startDate), EndOf(endDate))
    IN  IF Len(recentPosts) = 0
        THEN [message |-> TRUE, fetched |-> Len(allPosts), postsAnalyzed |-> 0,
              totalLikes |-> 0, totalComments |-> 0, avgEngagementRate |-> 0,
              topPostsByLikes |-> <<>>]
        ELSE [message |-> FALSE, fetched |-> Len(allPosts),
              postsAnalyzed |-> Len(recentPosts),
              totalLikes |-> SumLikes(recentPosts),
              totalComments |-> SumComments(recentPosts),
              avgEngagementRate |-> ReportRate(recentPosts, followerCount),
              topPostsByLikes |-> TopByLikes(recentPosts, 3)]

ReportCatch(err) ==
    HandlerCatch(err, "Account not found.", "Failed to generate engagement report")

ReportStart(c) ==
    /\ At(c, "generate_engagement_report", "start")
    /\ Validated(c)
    /\ IF ~isValidUsername(args.account)
       THEN /\ Throw(c, McpError("InvalidParams", "Invalid account handle."))
            /\ UNCHANGED loc
       ELSE /\ Goto("getId")
            /\ loc' = [followerCount |-> {}, allPosts |-> <<>>, postCount |-> 0]
    /\ UNCHANGED <<authFail, lastErr, loginFailed, owner, name, args, served>>

ReportGetId(c) ==
    /\ At(c, "generate_engagement_report", "getId")
    /\ \E o \in IdAnswers :
          /\ Requested(c, "user.getIdByUsername", o)
          /\ IF ~o.ok THEN Throw(c, ReportCatch(o.err)) ELSE Goto("info")
    /\ UNCHANGED <<owner, name, args, loc, served>>

ReportInfo(c) ==
    /\ At(c, "generate_engagement_report", "info")
    /\ \E o \in InfoAnswers :
          /\ Requested(c, "user.info", o)
          /\ IF ~o.ok
             THEN /\ Throw(c, ReportCatch(o.err))
                  /\ UNCHANGED loc
             ELSE /\ Goto("posts")
                  /\ loc' = [loc EXCEPT !.followerCount = o.v.follower_count]
    /\ UNCHANGED <<owner, name, args, served>>

\* One turn of the do-while loop over postsFeed.items(), and after the loop
\* the filter, the sums and the ranking.
ReportPosts(c) ==
    /\ At(c, "generate_engagement_report", "posts")
    /\ Len(served) < MaxPages
    /\ \E o \in ReportPageAnswers :
          /\ Requested(c, "feed.items", o)
          /\ IF ~o.ok
             THEN /\ Throw(c, ReportCatch(o.err))
                  /\ UNCHANGED <<loc, served>>
             ELSE LET allPosts == loc.allPosts \o ServedPosts(Sum(served), o.v.n)
                      postCount == loc.postCount + o.v.n
                  IN  /\ served' = Append(served, o.v.n)
                      /\ loc' = [loc EXCEPT !.allPosts = allPosts, !.postCount = postCount]
                      /\ IF ReportLoopEnds(postCount, o.v.more)
                         THEN Return(c, ReportOf(FetchedPosts(allPosts), loc.followerCount,
                                                 args.startDate, args.endDate))
                         ELSE Goto("posts")
    /\ UNCHANGED <<owner, name, args>>


\* ---------------------------------------------------------- identify_leads

LeadCap == 50

\* String.prototype.toLowerCase
LowerChar(ch) ==
    IF \E i \in 1..Len(Upper) : Upper[i] = ch
    THEN Lower[CHOOSE i \in 1..Len(Upper) : Upper[i] = ch]
    ELSE ch
toLowerCase(str) == [i \in 1..Len(str) |-> LowerChar(str[i])]

\* String.prototype.includes
Includes(str, sub) == \E i \in 1..(Len(str) + 1) : MatchAt(str, sub, i)

\* Array.prototype.join(' ')
RECURSIVE Join(_)
Join(strs) ==
    IF strs = <<>> THEN <<>>
    ELSE IF Len(strs) = 1 THEN strs[1]
    ELSE strs[1] \o <<" ">> \o Join(Tail(strs))

\* What the feeds and user.info serve.
SampleBio == <<"x","B">>
\* A user object of a feed carries only its pk (user 1), or its profile
\* fields too (user 2).
BareUser(pk) == [pk |-> pk, follower_count |-> {}, biography |-> {}]
FullUser(pk) == [pk |-> pk, follower_count |-> {MaxFollowers}, biography |-> {SampleBio}]
FeedUsers == {BareUser(1), FullUser(2)}
\* The comments of a page: user 1 also comments with its profile fields.
FeedComments == {[user |-> BareUser(1), text |-> <<"a">>],
                 [user |-> BareUser(1), text |-> <<"b">>],
                 [user |-> FullUser(1), text |-> <<"b">>],
                 [user |-> FullUser(2), text |-> <<"a">>]}
CommentPages == UNION {[1..n -> FeedComments] : n \in 0..MaxPageSize}
\* A page of more followers than the lead list holds, the second of them
\* with a biography of its own.
CrowdSize == LeadCap + 2
CrowdPage == [k \in 1..CrowdSize |->
                 IF k = 2 THEN [FullUser(k) EXCEPT !.biography = {<<"x">>}]
                 ELSE FullUser(k)]
FollowerPages == UNION {[1..n -> FeedUsers] : n \in 0..MaxPageSize} \cup {CrowdPage}

CommentPageAnswers == {Thrown(e) : e \in RemoteErrors} \cup {Ok(p) : p \in CommentPages}
FollowerPageAnswers == {Thrown(e) : e \in RemoteErrors} \cup {Ok(p) : p \in FollowerPages}
\* ig.user.info(pk): the full profile; the biography may be empty.
LeadInfoAnswers ==
    {Thrown(e) : e \in RemoteErrors}
    \cup {Ok([follower_count |-> {f}, biography |-> {b}]) :
             f \in {0, MaxFollowers}, b \in {<<>>, SampleBio}}

KeywordArgs == {{}, {<<>>}, {<< <<"B">> >>}, {<< <<"a"," ","b">> >>},
                {<< <<"z">> >>}, {<< <<"z">>, <<"A">> >>}}
NoCriteria == [minComments |-> {}, minFollowers |-> {}, keywords |-> {}]
AllCriteria == [minComments : {{}, {0}, {2}},
                minFollowers : {{}, {0}, {MaxFollowers}},
                keywords : KeywordArgs]
\* Criteria that leave the followers of an account their place in the list.
KeywordCriteria == {NoCriteria, [NoCriteria EXCEPT !.keywords = {<< <<"B">> >>}]}
SomeCriteria == {NoCriteria,
                 [minComments |-> {2}, minFollowers |-> {MaxFollowers},
                  keywords |-> {<< <<"B">> >>}]}
LeadsArgs == [accountOrPostUrl : TargetArgs, criteria : AllCriteria]
SomeLeadsArgs == [accountOrPostUrl : TargetArgs, criteria : SomeCriteria]
KeywordLeadsArgs == [accountOrPostUrl : TargetArgs, criteria : KeywordCriteria]

\* A map in which no pk is ever found.
IndexOfNone(users, pk) == 0

\* The position of the entry of pk in the map, 0 when it has none.
IndexOf(users, pk) ==
    IF \E i \in 1..Len(users) : users[i].pk = pk
    THEN CHOOSE i \in 1..Len(users) : users[i].pk = pk
    ELSE 0

\* comments.forEach: usersToAnalyze as the sequence of its entries in
\* insertion order.
RECURSIVE DedupComments(_, _)
DedupComments(users, comments) ==
    IF comments = <<>> THEN users
    ELSE LET cm == comments[1]
             at == IndexOf(users, cm.user.pk)
         IN  DedupComments(
                 IF at = 0
                 THEN Append(users, [pk |-> cm.user.pk,
                                     follower_count |-> cm.user.follower_count,
                                     biography |-> cm.user.biography,
                                     comments |-> <<cm.text>>])
                 ELSE [users EXCEPT ![at].comments = Append(@, cm.text)],
                 Tail(comments))

\* followers.forEach: a follower gets an entry when neither the map nor a
\* follower before it has its pk; the entries come in the followers' order.
DedupFollowers(users, followers) ==
    LET fresh == SelectSeq([k \in 1..Len(followers) |-> k],
                           LAMBDA k : /\ IndexOf(users, followers[k].pk) = 0
                                      /\ IndexOf(SubSeq(followers, 1, k - 1),
                                                 followers[k].pk) = 0)
    IN  users \o [i \in 1..Len(fresh) |->
                     [pk |-> followers[fresh[i]].pk,
                      follower_count |-> followers[fresh[i]].follower_count,
                      biography |-> followers[fresh[i]].biography,
                      comments |-> <<>>]]

\* A number that is given and not 0; a string that is given and not ''.
TruthyNum(opt) == opt # {} /\ opt # {0}
TruthyStr(opt) == opt # {} /\ opt # {<<>>}

\* (minFollowers && !userInfo.follower_count) || (keywords && !userInfo.biography)
NeedsInfo(user, criteria) ==
    \/ TruthyNum(criteria.minFollowers) /\ ~TruthyNum(user.follower_count)
    \/ criteria.keywords # {} /\ ~TruthyStr(user.biography)

\* The text the keywords are looked up in besides the biography:
\* (user.comments || []).join(' ').toLowerCase()
CommentsText(comments) == toLowerCase(Join(comments))

\* keywords.filter(kw => bioLower.includes(kw.toLowerCase())
\*                       || commentsText.includes(kw.toLowerCase()))
RECURSIVE FoundKeywords(_, _, _)
FoundKeywords(keywords, bioLower, commentsText) ==
    IF keywords = <<>> THEN <<>>
    ELSE (IF \/ Includes(bioLower, toLowerCase(keywords[1]))
             \/ Includes(commentsText, toLowerCase(keywords[1]))
          THEN <<keywords[1]>> ELSE <<>>)
         \o FoundKeywords(Tail(keywords), bioLower, commentsText)

\* The three checks of the loop body on userInfo and user.comments:
\* meetsCriteria and reasons.
Evaluate(user, userInfo, criteria) ==
    LET minFollowers == Default(criteria.minFollowers, 0)
        minComments == Default(criteria.minComments, 0)
        followersFail ==
            /\ minFollowers # 0
            /\ \/ userInfo.follower_count = {}
               \/ Default(userInfo.follower_count, 0) < minFollowers
        userCommentCount == Len(user.comments)
        commentsFail == minComments # 0 /\ userCommentCount < minComments
        keywordsOn == criteria.keywords # {} /\ Len(Default(criteria.keywords, <<>>)) > 0
        found == FoundKeywords(Default(criteria.keywords, <<>>),
                               toLowerCase(Default(userInfo.biography, <<>>)),
                               CommentsText(user.comments))
        keywordsFail == keywordsOn /\ Len(found) = 0
    IN  [meetsCriteria |-> ~followersFail /\ ~commentsFail /\ ~keywordsFail,
         reasons |-> (IF minFollowers # 0 /\ ~followersFail THEN <<"Followers">> ELSE <<>>)
                     \o (IF minComments # 0 /\ ~commentsFail THEN <<"Comments">> ELSE <<>>)
                     \o (IF keywordsOn /\ ~keywordsFail THEN <<"Keywords found">> ELSE <<>>),
         foundKeywords |-> found]

\* The loop body for one user, given what ig.user.info answered: the
\* userInfo it checks, whether it skips the user (continue), and the lead it
\* pushes, if any.
LeadsBody(user, criteria, o) ==
    LET fetch == NeedsInfo(user, criteria)
        skipped == \/ fetch /\ user.pk = 0
                   \/ /\ fetch /\ ~o.ok
                      /\ TruthyNum(criteria.minFollowers)
                      /\ ~TruthyNum(user.follower_count)
        userInfo == IF fetch /\ o.ok
                    THEN [pk |-> user.pk, follower_count |-> o.v.follower_count,
                          biography |-> o.v.biography]
                    ELSE [pk |-> user.pk, follower_count |-> user.follower_count,
                          biography |-> user.biography]
        e == Evaluate(user, userInfo, criteria)
    IN  [userInfo |-> userInfo,
         skipped |-> skipped,
         pushed |-> IF ~skipped /\ e.meetsCriteria
                    THEN << [userId |-> userInfo.pk,
                             followerCount |-> userInfo.follower_count,
                             reasons |-> e.reasons, foundKeywords |-> e.foundKeywords] >>
                    ELSE <<>>]

\* A result that is the whole list.
LeadsResultAll(potentialLeads) == potentialLeads

\* return { results: { leads: potentialLeads.slice(0, 50) } }
LeadsResult(potentialLeads) == Slice(potentialLeads, LeadCap)

LeadsCatch(err, targetType) ==
    HandlerCatch(err, IF targetType = "post" THEN "Post not found or access denied."
                      ELSE "Account not found or access denied.",
                 "Failed to process lead identification")

LeadsStart(c) ==
    /\ At(c, "identify_leads", "start")
    /\ Validated(c)
    /\ IF isValidPostUrl(args.accountOrPostUrl)
       THEN /\ Goto("getMediaId")
            /\ loc' = [targetType |-> "post", mediaId |-> NullId, users |-> <<>>,
                       i |-> 1, potentialLeads |-> <<>>, infos |-> <<>>, feed |-> <<>>]
       ELSE IF isValidUsername(args.accountOrPostUrl)
       THEN /\ Goto("getId")
            /\ loc' = [targetType |-> "account", mediaId |-> NullId, users |-> <<>>,
                       i |-> 1, potentialLeads |-> <<>>, infos |-> <<>>, feed |-> <<>>]
       ELSE /\ Throw(c, McpError("InvalidParams",
                         "Invalid input. Provide a valid Instagram username or post URL."))
            /\ UNCHANGED loc
    /\ UNCHANGED <<authFail, lastErr, loginFailed, owner, name, args, served>>

LeadsGetId(c) ==
    /\ At(c, "identify_leads", "getId")
    /\ \E o \in IdAnswers :
          /\ Requested(c, "user.getIdByUsername", o)
          /\ IF ~o.ok
             THEN Throw(c, HandlerCatch(o.err, "Account not found.", "Failed to get user ID"))
             ELSE Goto("leadFollowers")
    /\ UNCHANGED <<owner, name, args, loc, served>>

\* The feed's one page has been deduplicated into users: the loop over
\* usersToAnalyze.values() starts, or ends at once.
LeadsLoop(c, users, items) ==
    /\ loc' = [loc EXCEPT !.users = users, !.feed = items]
    /\ IF users = <<>> THEN Return(c, LeadsResult(<<>>)) ELSE Goto("leadUser")

\* const comments = await commentsFeed.items(); comments.forEach(...)
LeadsComments(c) ==
    /\ At(c, "identify_leads", "leadComments")
    /\ \E o \in CommentPageAnswers :
          /\ Requested(c, "feed.items", o)
          /\ IF ~o.ok
             THEN /\ Throw(c, LeadsCatch(o.err, loc.targetType))
                  /\ UNCHANGED <<loc, served>>
             ELSE /\ served' = Append(served, Len(o.v))
                  /\ LeadsLoop(c, DedupComments(<<>>, o.v), o.v)
    /\ UNCHANGED <<owner, name, args>>

\* const followers = await followersFeed.items(); followers.forEach(...)
LeadsFollowers(c) ==
    /\ At(c, "identify_leads", "leadFollowers")
    /\ \E o \in FollowerPageAnswers :
          /\ Requested(c, "feed.items", o)
          /\ IF ~o.ok
             THEN /\ Throw(c, LeadsCatch(o.err, loc.targetType))
                  /\ UNCHANGED <<loc, served>>
             ELSE /\ served' = Append(served, Len(o.v))
                  /\ LeadsLoop(c, DedupFollowers(<<>>, o.v), o.v)
    /\ UNCHANGED <<owner, name, args>>

\* One turn of the loop over usersToAnalyze.values(): the detail fetch when
\* the criteria need it, the checks, and after the last user the return.
LeadsUser(c) ==
    /\ At(c, "identify_leads", "leadUser")
    /\ \E o \in LeadInfoAnswers :
          LET user == loc.users[loc.i]
              fetch == NeedsInfo(user, args.criteria) /\ user.pk # 0
              body == LeadsBody(user, args.criteria, o)
              potentialLeads == loc.potentialLeads \o body.pushed
          IN  /\ IF fetch
                 THEN Requested(c, "user.info", o)
                 ELSE UNCHANGED <<trace, authFail, lastErr, loginFailed>>
              /\ loc' = [loc EXCEPT !.i = loc.i + 1, !.potentialLeads = potentialLeads,
                                    !.infos = Append(@, body.userInfo)]
              /\ IF loc.i < Len(loc.users)
                 THEN Goto("leadUser")
                 ELSE Return(c, LeadsResult(potentialLeads))
    /\ UNCHANGED <<owner, name, args, served>>

\* ------------------------------------------------------------- the server

\* The arguments the calls of the whole server are drawn from.
SomeArgsOf(t) ==
    IF t = "analyze_post_comments" THEN SomeAnalyzeArgs
    ELSE IF t = "compare_accounts" THEN SomeCompareArgs
    ELSE IF t = "extract_demographics" THEN SomeDemographicsArgs
    ELSE IF t = "identify_leads" THEN SomeLeadsArgs
    ELSE IF t = "generate_engagement_report" THEN SomeReportArgs
    ELSE {NoArgs}

\* The arguments a call of one tool on its own is drawn from.
ArgsOf(t) ==
    IF t = "analyze_post_comments" THEN AnalyzeArgs
    ELSE IF t = "compare_accounts" THEN CompareArgs
    ELSE IF t = "extract_demographics" THEN DemographicsArgs
    ELSE IF t = "identify_leads" THEN LeadsArgs
    ELSE IF t = "generate_engagement_report" THEN ReportArgs
    ELSE {NoArgs}

\* The steps of call c up to the switch, and after the handler.
Dispatch(c) ==
    \/ Request(c)
    \/ LoginResolve(c)
    \/ DefaultCase(c)
    \/ Complete(c)

AnalyzeSteps(c) ==
    \/ AnalyzeStart(c)
    \/ AnalyzeItems(c)

CompareSteps(c) ==
    \/ CompareStart(c)
    \/ CompareGetId(c)
    \/ CompareInfo(c)
    \/ ComparePosts(c)

DemographicsSteps(c) ==
    \/ DemographicsStart(c)
    \/ DemographicsGetId(c)
    \/ DemographicsLikers(c)
    \/ DemographicsFollowers(c)

ReportSteps(c) ==
    \/ ReportStart(c)
    \/ ReportGetId(c)
    \/ ReportInfo(c)
    \/ ReportPosts(c)

LeadsSteps(c) ==
    \/ LeadsStart(c)
    \/ LeadsGetId(c)
    \/ LeadsComments(c)
    \/ LeadsFollowers(c)
    \/ LeadsUser(c)

HandlerSteps(c) ==
    \/ ResolveMedia(c)
    \/ AnalyzeSteps(c)
    \/ CompareSteps(c)
    \/ DemographicsSteps(c)
    \/ ReportSteps(c)
    \/ LeadsSteps(c)

\* The whole server: two calls, dispatched as the transport delivers them.
Next ==
    \E c \in Calls :
        \/ Dispatch(c)
        \/ \E t \in ToolNames : \E a \in SomeArgsOf(t) : Enter(c, t, a)
        \/ HandlerSteps(c)

Spec == Init /\ [][Next]_vars

\* One call at a time, as a client does that awaits each response: the
\* accumulation loops of analyze_post_comments, extract_demographics and
\* generate_engagement_report over all their arguments.
AccumulateTools == {"analyze_post_comments", "extract_demographics",
                    "generate_engagement_report"}
NextAccumulate ==
    \/ Dispatch(1)
    \/ \E t \in AccumulateTools \cup {"no_such_tool"} : \E a \in ArgsOf(t) : Enter(1, t, a)
    \/ ResolveMedia(1)
    \/ AnalyzeSteps(1)
    \/ DemographicsSteps(1)
    \/ ReportSteps(1)

SpecAccumulate == Init /\ [][NextAccumulate]_vars

\* One call at a time: compare_accounts over all its arguments.
NextCompare ==
    \/ Dispatch(1)
    \/ \E t \in {"compare_accounts", "no_such_tool"} : \E a \in ArgsOf(t) : Enter(1, t, a)
    \/ CompareSteps(1)

SpecCompare == Init /\ [][NextCompare]_vars

\* One call at a time: identify_leads over all its arguments.
NextLeads ==
    \/ Dispatch(1)
    \/ \E t \in {"identify_leads", "no_such_tool"} : \E a \in ArgsOf(t) : Enter(1, t, a)
    \/ ResolveMedia(1)
    \/ LeadsSteps(1)

SpecLeads == Init /\ [][NextLeads]_vars

\* One call at a time: the tools that report an engagement rate.
RateTools == {"compare_accounts", "generate_engagement_report"}
NextRates ==
    \/ Dispatch(1)
    \/ \E t \in RateTools \cup {"no_such_tool"} : \E a \in ArgsOf(t) : Enter(1, t, a)
    \/ CompareSteps(1)
    \/ ReportSteps(1)

SpecRates == Init /\ [][NextRates]_vars

\* One call at a time: identify_leads with no criteria or a keyword, over
\* all pages of the feeds.
NextLeadsFeed ==
    \/ Dispatch(1)
    \/ \E a \in KeywordLeadsArgs : Enter(1, "identify_leads", a)
    \/ Enter(1, "no_such_tool", NoArgs)
    \/ ResolveMedia(1)
    \/ LeadsSteps(1)

SpecLeadsFeed == Init /\ [][NextLeadsFeed]_vars

\* The session under two calls: the login and a tool whose remote failures
\* reach the dispatcher.
NextSession ==
    \E c \in Calls :
        \/ Dispatch(c)
        \/ \E a \in SomeAnalyzeArgs : Enter(c, "analyze_post_comments", a)
        \/ Enter(c, "no_such_tool", NoArgs)
        \/ ResolveMedia(c)
        \/ AnalyzeSteps(c)

SpecSession == Init /\ [][NextSession]_vars

\* The accountOrPostUrl arguments of the classification: post URLs, one
\* followed by a query, a URL without shortcode, handles, a malformed handle
\* and the empty string.
ClassifyTargets == {UrlPlain, UrlWww, UrlPlain \o <<"?","x">>, UrlNoCode,
                    HandleA, HandleB, HandleBad, <<>>}

\* One call at a time: the two tools that take a post URL or a handle.
NextClassify ==
    \/ Dispatch(1)
    \/ \E u \in ClassifyTargets :
          Enter(1, "extract_demographics", [accountOrPostUrl |-> u, sampleSize |-> {1}])
    \/ \E u \in ClassifyTargets :
          Enter(1, "identify_leads", [accountOrPostUrl |-> u, criteria |-> NoCriteria])
    \/ Enter(1, "no_such_tool", NoArgs)
    \/ ResolveMedia(1)
    \/ DemographicsSteps(1)
    \/ LeadsSteps(1)

SpecClassify == Init /\ [][NextClassify]_vars

\* One call at a time: the three tools that compute averages and ratios.
NextAggregates ==
    \/ Dispatch(1)
    \/ \E t \in {"compare_accounts", "extract_demographics", "generate_engagement_report",
                  "no_such_tool"} : \E a \in SomeArgsOf(t) : Enter(1, t, a)
    \/ ResolveMedia(1)
    \/ CompareSteps(1)
    \/ DemographicsSteps(1)
    \/ ReportSteps(1)

SpecAggregates == Init /\ [][NextAggregates]_vars


\* ------------------------------------------------------------------ claims

RemoteOps == {"authenticate", "media.getByUrl", "user.getIdByUsername", "user.info",
              "feed.items", "media.likers"}

\* How often call c requested remote operation op.
CountOf(c, op) == Cardinality({i \in 1..Len(trace[c]) : trace[c][i] = op})

\* Call c's handler body has ended and its response is not yet sent.
Ran(c) == owner = c /\ cpc[c] = "done"

\* The arguments of the running handler fail its validation.
InputInvalid ==
    IF name = "analyze_post_comments" THEN ~isValidPostUrl(args.postUrl)
    ELSE IF name = "compare_accounts"
    THEN \/ args.accounts.kind # "array"
         \/ Len(args.accounts.list) = 0
         \/ \E i \in 1..Len(args.accounts.list) : ~isValidUsername(args.accounts.list[i])
    ELSE IF name \in {"extract_demographics", "identify_leads"}
    THEN ~isValidPostUrl(args.accountOrPostUrl) /\ ~isValidUsername(args.accountOrPostUrl)
    ELSE IF name = "generate_engagement_report" THEN ~isValidUsername(args.account)
    ELSE FALSE

\* C1: a call in which a remote operation failed with IgLoginRequiredError
\* or IgCheckpointError ends as an internal error and leaves the session
\* logged out.
C1_AuthFailureInvalidates ==
    \A c \in Calls :
        cpc[c] = "done" /\ authFail[c]
        => /\ ~isLoggedIn
           /\ result[c].kind = "error"
           /\ result[c].code = "InternalError"

\* C2: validation comes before every remote operation: a call whose
\* arguments fail validation has requested no remote operation, the login
\* included, and a call that validated did so first.
C2_ValidationBeforeNetwork ==
    \A c \in Calls :
        owner = c /\ hpc # "start"
        => /\ trace[c][1] = "validate"
           /\ InputInvalid => \A i \in 1..Len(trace[c]) : trace[c][i] \notin RemoteOps

\* C3: at most one login request is in flight.
C3_SingleFlightLogin == Cardinality({c \in Calls : cpc[c] = "login"}) <= 1

\* The target count of the running accumulation loop.
AccTarget ==
    IF name = "analyze_post_comments"
    THEN Default(args.maxComments, DefaultMaxComments)
    ELSE Default(args.sampleSize, DefaultSampleSize)

AccTools == {"analyze_post_comments", "extract_demographics"}

\* The items the ended accumulation handed on.
AccReturned(c) ==
    IF name = "analyze_post_comments" THEN result[c].value ELSE result[c].value.users

\* C4: with a target count <= 0 no page is requested and the handler
\* returns an empty sequence.
C4_NonPositiveTargetFetchesNothing ==
    \A c \in Calls :
        owner = c /\ name \in AccTools /\ AccTarget <= 0
        => /\ CountOf(c, "feed.items") = 0
           /\ Ran(c) /\ result[c].kind = "ok" => AccReturned(c) = <<>>

\* The first page at which the served items reach target.
Cumul(sizes, k) == Sum(SubSeq(sizes, 1, k))
FirstReach(sizes, target) ==
    CHOOSE k \in 1..Len(sizes) :
        /\ Cumul(sizes, k) >= target
        /\ \A j \in 1..(k - 1) : Cumul(sizes, j) < target

C6_PageRequestsBounded ==
    \A c \in Calls :
        /\ owner = c /\ name \in AccTools /\ AccTarget > 0
           => CountOf(c, "feed.items") <= AccTarget
        /\ owner = c /\ name = "generate_engagement_report"
           => CountOf(c, "feed.items") <= maxPostsToFetch

\* C7: an accumulation hands at most its bound to the aggregation: the
\* report filters at most maxPostsToFetch posts, the other loops return at
\* most their target count.
C7_HandsAtMostBound ==
    \A c \in Calls :
        Ran(c) /\ result[c].kind = "ok"
        => /\ name = "generate_engagement_report"
              => result[c].value.fetched <= maxPostsToFetch
           /\ name \in AccTools /\ AccTarget > 0
              => Len(AccReturned(c)) <= AccTarget

\* C8: for a valid post URL the resolution never fails the call: without
\* an id from the lookup the media id is the shortcode.
C8_ResolutionFallsBack ==
    \A c \in Calls :
        /\ owner = c /\ hpc # "start"
        /\ name \in {"analyze_post_comments", "extract_demographics", "identify_leads"}
        /\ isValidPostUrl(TargetUrl)
        => /\ Ran(c) => result[c].msg # "Could not extract media ID from post URL."
           /\ hpc # "getMediaId" /\ loc.mediaId.kind # "pk"
              => /\ loc.mediaId.kind = "shortcode"
                 /\ loc.mediaId.code = extractPostIdFromUrl(TargetUrl)

\* The handles of a list.
HandleSet(list) == {list[i] : i \in 1..Len(list)}

\* C9: compare_accounts with a non-empty list of valid handles does not
\* fail: it processes every account, and its result has an entry for every
\* handle, an error entry where the account's lookups failed (at the
\* handle's last place in the list) and a normal entry where they succeeded.
C9_CompareIsResilient ==
    \A c \in Calls :
        Ran(c) /\ name = "compare_accounts" /\ ~InputInvalid
        => LET list == args.accounts.list
               value == result[c].value
           IN  /\ result[c].kind = "ok"
               /\ Len(loc.outcomes) = Len(list)
               /\ DOMAIN value = HandleSet(list)
               /\ \A i \in 1..Len(list) :
                     (\A j \in (i + 1)..Len(list) : list[j] # list[i])
                     => value[list[i]].kind =
                            (IF loc.outcomes[i] = "succeeded" THEN "ok" ELSE "error")

\* C9 happens: the first account fails, the second one is still processed.
C9_Witness ==
    /\ Ran(1) /\ name = "compare_accounts" /\ ~InputInvalid
    /\ Len(args.accounts.list) = 2
    /\ args.accounts.list[1] # args.accounts.list[2]
    /\ loc.outcomes = <<"failed", "succeeded">>
    /\ result[1].value[args.accounts.list[1]].kind = "error"
    /\ result[1].value[args.accounts.list[2]].kind = "ok"

\* The criteria as a user meets them when every keyword is looked up in
\* the biography and in each comment on its own.
MeetsCriteria(user, userInfo, criteria) ==
    LET keywords == Default(criteria.keywords, <<>>)
        bio == toLowerCase(Default(userInfo.biography, <<>>))
    IN  /\ \/ criteria.minFollowers = {}
           \/ /\ userInfo.follower_count # {}
              /\ Default(userInfo.follower_count, 0) >= Default(criteria.minFollowers, 0)
        /\ \/ criteria.minComments = {}
           \/ Len(user.comments) >= Default(criteria.minComments, 0)
        /\ \/ keywords = <<>>
           \/ \E k \in 1..Len(keywords) :
                 \/ Includes(bio, toLowerCase(keywords[k]))
                 \/ \E j \in 1..Len(user.comments) :
                       Includes(toLowerCase(user.comments[j]), toLowerCase(keywords[k]))

\* C10: a unique user is among the leads exactly when it meets the
\* follower criterion, the comment criterion and the keyword criterion, a
\* keyword being found in its biography or in one of its comments.
C10_LeadIffCriteria ==
    \A c \in Calls :
        Ran(c) /\ name = "identify_leads" /\ result[c].kind = "ok"
        => \A i \in 1..Len(loc.users) :
              (\E l \in 1..Len(loc.potentialLeads) :
                   loc.potentialLeads[l].userId = loc.users[i].pk)
              <=> MeetsCriteria(loc.users[i], loc.infos[i], args.criteria)

\* The reasons of a lead under criteria: one for every criterion that is
\* specified, in the order followers, comments, keywords.
ExpectedReasons(criteria) ==
    (IF criteria.minFollowers # {} THEN <<"Followers">> ELSE <<>>)
    \o (IF criteria.minComments # {} THEN <<"Comments">> ELSE <<>>)
    \o (IF Default(criteria.keywords, <<>>) # <<>> THEN <<"Keywords found">> ELSE <<>>)

\* C11: every returned lead has exactly one reason per criterion that was
\* specified (a lead satisfies each of them), and none for a criterion
\* that was not.
C11_ReasonsPerCriterion ==
    \A c \in Calls :
        Ran(c) /\ name = "identify_leads" /\ result[c].kind = "ok"
        => \A l \in 1..Len(result[c].value) :
              result[c].value[l].reasons = ExpectedReasons(args.criteria)

\* The pk of every item of the fetched page, in fetch order.
FeedPks ==
    [k \in 1..Len(loc.feed) |->
        IF loc.targetType = "post" THEN loc.feed[k].user.pk ELSE loc.feed[k].pk]

\* The place at which pk is first encountered in the fetched page.
FirstSeen(pk) == CHOOSE k \in 1..Len(FeedPks) :
                    FeedPks[k] = pk /\ \A j \in 1..(k - 1) : FeedPks[j] # pk

\* The places in loc.users of the users that qualify, in order.
Qualifying ==
    SelectSeq([i \in 1..Len(loc.users) |-> i],
              LAMBDA i : Evaluate(loc.users[i], loc.infos[i], args.criteria).meetsCriteria)

\* C12: the returned list has at most 50 leads: the first (up to) 50
\* qualifying users, in the order in which their pk was first encountered
\* in the fetched page.
C12_FirstFiftyInOrder ==
    \A c \in Calls :
        Ran(c) /\ name = "identify_leads" /\ result[c].kind = "ok"
        => LET leads == result[c].value
           IN  /\ Len(leads) <= 50
               /\ Len(leads) = Min(50, Len(Qualifying))
               /\ \A l \in 1..Len(leads) : leads[l].userId = loc.users[Qualifying[l]].pk
               /\ \A i, j \in 1..Len(loc.users) :
                     i < j => FirstSeen(loc.users[i].pk) < FirstSeen(loc.users[j].pk)

\* C12 happens: more than 50 users qualify, one of the first 50 users does
\* not, and 50 leads are returned.
C12_Witness ==
    /\ Ran(1) /\ name = "identify_leads" /\ result[1].kind = "ok"
    /\ Len(Qualifying) > 50
    /\ Len(loc.users) > Len(Qualifying)
    /\ Qualifying[2] = 3
    /\ Len(result[1].value) = 50
    /\ result[1].value[50].userId = loc.users[Qualifying[50]].pk

\* The user object item k of the fetched page carries, and its comment text.
FeedUser(k) == IF loc.targetType = "post" THEN loc.feed[k].user ELSE loc.feed[k]
FeedTexts(pk) ==
    IF loc.targetType = "post"
    THEN LET own == SelectSeq(loc.feed, LAMBDA cm : cm.user.pk = pk)
         IN  [k \in 1..Len(own) |-> own[k].text]
    ELSE <<>>

\* C13: after deduplication every pk of the fetched page has exactly one
\* user record: its comments are the texts of the page's comments of that
\* pk in fetch order, its profile fields those of the pk's first occurrence.
C13_OneRecordPerPk ==
    \A c \in Calls :
        owner = c /\ name = "identify_leads" /\ "feed" \in DOMAIN loc
        => LET users == loc.users
           IN  /\ \A i, j \in 1..Len(users) : users[i].pk = users[j].pk => i = j
               /\ {users[i].pk : i \in 1..Len(users)}
                      = {FeedPks[k] : k \in 1..Len(FeedPks)}
               /\ \A i \in 1..Len(users) :
                     LET first == FeedUser(FirstSeen(users[i].pk))
                     IN  /\ users[i].comments = FeedTexts(users[i].pk)
                         /\ users[i].follower_count = first.follower_count
                         /\ users[i].biography = first.biography

\* C13 happens: two comments share a pk, the first without profile fields,
\* the second with them, and one user holds both texts.
C13_Witness ==
    /\ owner = 1 /\ name = "identify_leads" /\ hpc = "leadUser"
    /\ loc.targetType = "post"
    /\ Len(loc.feed) = 2
    /\ loc.feed[1].user = BareUser(1) /\ loc.feed[2].user = FullUser(1)
    /\ Len(loc.users) = 1
    /\ loc.users[1].comments = <<loc.feed[1].text, loc.feed[2].text>>
    /\ loc.users[1].follower_count = {}

\* A post lies in the period of the running report: not before the start
\* of startDate, not after endDate's timestamp + 86399, each when given.
InPeriod(post) ==
    /\ \A d \in args.startDate : post.taken_at >= d * 86400
    /\ \A d \in args.endDate : post.taken_at <= d * 86400 + 86399

\* C14: the report analyses exactly the fetched posts that lie in the
\* period; an absent date bounds nothing.
C14_AnalysedIffInPeriod ==
    \A c \in Calls :
        Ran(c) /\ name = "generate_engagement_report" /\ result[c].kind = "ok"
        => LET expected == SelectSeq(loc.allPosts, InPeriod)
           IN  /\ Filter(loc.allPosts, StartOf(args.startDate), EndOf(args.endDate))
                      = expected
               /\ result[c].value.postsAnalyzed = Len(expected)
               /\ result[c].value.totalLikes = SumLikes(expected)

\* C14 happens: of two fetched posts a second apart, the one at 23:59:59 of
\* endDate is analysed and the one a second later is not.
C14_Witness ==
    /\ Ran(1) /\ name = "generate_engagement_report" /\ result[1].kind = "ok"
    /\ args.endDate = {1} /\ args.startDate = {}
    /\ Len(loc.allPosts) >= 2
    /\ loc.allPosts[1].taken_at = 1 * 86400 + 86400
    /\ loc.allPosts[2].taken_at = 1 * 86400 + 86399
    /\ result[1].value.postsAnalyzed = Len(loc.allPosts) - 1

\* C15: the engagement rate is 0 whenever the account's follower count is
\* 0 or missing: the report's rate is 0 then, an entry of the comparison
\* that shows such a follower count shows the rate 0, and the comparison
\* fetches posts, which it divides by the follower count, only for a
\* follower count above 0.
C15_NoFollowersNoRate ==
    \A c \in Calls :
        /\ Ran(c) /\ name = "generate_engagement_report" /\ result[c].kind = "ok"
           /\ loc.followerCount \in {{}, {0}}
           => result[c].value.avgEngagementRate = 0
        /\ owner = c /\ name = "compare_accounts" /\ hpc = "posts"
           => loc.followerCount \notin {{}, {0}}
        /\ Ran(c) /\ name = "compare_accounts" /\ result[c].kind = "ok"
           => \A h \in DOMAIN result[c].value :
                 LET e == result[c].value[h]
                     metrics == Default(args.metrics, DefaultMetrics)
                 IN  /\ e.kind = "ok" /\ e.followers \in {{}, {0}}
                     /\ "followers" \in metrics /\ "engagement" \in metrics
                     => e.engagementRate = {0}

\* C15 happens: a report over posts with likes for an account of 0 followers.
C15_Witness ==
    /\ Ran(1) /\ name = "generate_engagement_report" /\ result[1].kind = "ok"
    /\ loc.followerCount = {0}
    /\ result[1].value.postsAnalyzed > 0
    /\ result[1].value.totalLikes > 0
    /\ result[1].value.avgEngagementRate = 0

\* C16: once the session is authenticated, a step in which no remote
\* operation fails with an auth-invalidating error leaves it authenticated,
\* and no call requests the login in it.
C16_AuthenticatedStaysQuiet ==
    [][(isLoggedIn /\ \A c \in Calls : authFail'[c] => authFail[c])
       => /\ isLoggedIn'
          /\ \A c \in Calls : trace'[c] # Append(trace[c], "authenticate")]_vars

\* C16 happens: a call has passed the login of an authenticated session
\* without a request to the remote service.
C16_Witness ==
    \E c \in Calls : isLoggedIn /\ cpc[c] = "ready" /\ trace[c] = <<>>

\* C17: a call whose login failed requested the login exactly once and
\* answers with the error the login threw, unwrapped.
C17_LoginFailureUnwrapped ==
    \A c \in Calls :
        cpc[c] = "done" /\ trace[c] = <<"authenticate">> /\ lastErr[c] # ""
        => /\ CountOf(c, "authenticate") = 1
           /\ result[c].kind = "error"
           /\ result[c].msg = lastErr[c]

\* C18: in the accumulation loops of analyze_post_comments,
\* extract_demographics and generate_engagement_report, a page request that
\* threw is the last remote operation of its call; the call has ended with
\* an error and no value, and with an internal error when the page request
\* was rate limited.
C18_FailedPageEndsCall ==
    owner = 1 /\ name \in AccumulateTools /\ lastErr[1] # ""
    => /\ Ran(1)
       /\ trace[1][Len(trace[1])] = "feed.items"
       /\ CountOf(1, "feed.items") = Len(served) + 1
       /\ result[1].kind = "error"
       /\ result[1].value = <<>>
       /\ lastErr[1] = "IgRequestsLimitError" => result[1].code = "InternalError"

\* C18 happens: the report's feed served a page of posts and was rate
\* limited at the next page.
C18_Witness ==
    /\ Ran(1) /\ name = "generate_engagement_report"
    /\ lastErr[1] = "IgRequestsLimitError"
    /\ Len(served) >= 1 /\ Sum(served) > 0
    /\ result[1].kind = "error"

\* The detail fetch for the i-th unique user was issued and failed:
\* ig.user.info answers with a follower count, so the profile checked has
\* none only when the fetch threw.
FetchFailed(i) ==
    /\ NeedsInfo(loc.users[i], args.criteria) /\ loc.users[i].pk # 0
    /\ loc.infos[i].follower_count = {}

IsLead(i) ==
    \E l \in 1..Len(loc.potentialLeads) : loc.potentialLeads[l].userId = loc.users[i].pk

\* C19: identify_leads requests at most one profile per unique user, and a
\* failed request does not end the call: every unique user is evaluated and
\* the call returns. A user whose request failed is no lead when
\* minFollowers is specified and its follower count is missing; otherwise it
\* is evaluated with an empty biography.
C19_FailedFetchDegrades ==
    owner = 1 /\ name = "identify_leads" /\ "users" \in DOMAIN loc
    => /\ CountOf(1, "user.info") <= Len(loc.infos)
       /\ Ran(1) /\ CountOf(1, "user.info") > 0
          => result[1].kind = "ok" /\ Len(loc.infos) = Len(loc.users)
       /\ \A i \in 1..Len(loc.infos) :
             FetchFailed(i)
             => IF args.criteria.minFollowers # {}
                THEN ~IsLead(i)
                ELSE IsLead(i)
                     <=> Evaluate(loc.users[i],
                                  [pk |-> loc.users[i].pk, follower_count |-> {},
                                   biography |-> {<<>>}],
                                  args.criteria).meetsCriteria

\* Post p ranks before post q: more likes, or as many and fetched earlier.
RanksBefore(p, q) ==
    \/ p.like_count > q.like_count
    \/ p.like_count = q.like_count /\ p.id < q.id

\* C20: the report's topPostsByLikes are 3 of the posts in the period, or
\* all of them when they are fewer, each ranking before the next and the
\* last before every post in the period that is left out.
C20_TopThreeByLikes ==
    \A c \in Calls :
        Ran(c) /\ name = "generate_engagement_report" /\ result[c].kind = "ok"
        => LET inPeriod == SelectSeq(loc.allPosts, InPeriod)
               top == result[c].value.topPostsByLikes
           IN  /\ Len(top) = Min(3, Len(inPeriod))
               /\ \A k \in 1..Len(top) : \E j \in 1..Len(inPeriod) : inPeriod[j] = top[k]
               /\ \A k \in 1..(Len(top) - 1) : RanksBefore(top[k], top[k + 1])
               /\ \A j \in 1..Len(inPeriod) :
                      (\A k \in 1..Len(top) : top[k] # inPeriod[j])
                      => Len(top) = 3 /\ RanksBefore(top[3], inPeriod[j])

\* C20 happens: of more than 3 posts in the period, which leaves a fetched
\* post out, the report ranks three with equal likes in fetch order, and
\* they are not the first three of the period.
C20_Witness ==
    /\ Ran(1) /\ name = "generate_engagement_report" /\ result[1].kind = "ok"
    /\ args.startDate # {} /\ args.endDate # {}
    /\ result[1].value.postsAnalyzed > 3
    /\ result[1].value.postsAnalyzed < Len(loc.allPosts)
    /\ LET top == result[1].value.topPostsByLikes
       IN  /\ Len(top) = 3
           /\ top[1].like_count = top[3].like_count
           /\ top[1].id < top[2].id /\ top[2].id < top[3].id
           /\ top # SubSeq(SelectSeq(loc.allPosts, InPeriod), 1, 3)

\* The remote operations that look an entity up or request a page.
LookupOps == RemoteOps \ {"authenticate"}

\* The post URL pattern: https://, an optional www., instagram.com/p/ and
\* at least one shortcode character.
MatchesPostUrl(u) ==
    \E w \in {<<>>, WWW} :
        LET prefix == HTTPS \o w \o HOST \o PSEG
        IN  /\ Len(u) > Len(prefix)
            /\ SubSeq(u, 1, Len(prefix)) = prefix
            /\ u[Len(prefix) + 1] \in ShortcodeChars

\* The handle pattern: one or more letters, digits, dots and underscores.
MatchesHandle(u) == u # <<>> /\ {u[i] : i \in 1..Len(u)} \subseteq UsernameChars

\* C21: extract_demographics and identify_leads take an input that matches
\* the post URL pattern for a post and look no account up; an input that
\* matches only the handle pattern for an account, and resolve no media;
\* any other input ends the call with InvalidParams before any lookup or
\* page request.
C21_ClassifiesTarget ==
    owner = 1 /\ name \in {"extract_demographics", "identify_leads"} /\ hpc # "start"
    => LET u == args.accountOrPostUrl
       IN  IF MatchesPostUrl(u)
           THEN /\ loc.targetType = "post"
                /\ CountOf(1, "user.getIdByUsername") = 0
           ELSE IF MatchesHandle(u)
           THEN /\ loc.targetType = "account"
                /\ CountOf(1, "media.getByUrl") = 0
                /\ CountOf(1, "media.likers") = 0
           ELSE /\ Ran(1)
                /\ result[1].kind = "error" /\ result[1].code = "InvalidParams"
                /\ \A op \in LookupOps : CountOf(1, op) = 0

\* C21 happens: a handle with a character outside the handle pattern has
\* ended identify_leads.
C21_Witness ==
    /\ Ran(1) /\ name = "identify_leads" /\ args.accountOrPostUrl = HandleBad
    /\ result[1].code = "InvalidParams"
    /\ trace[1] = <<"authenticate", "validate">>

\* C22: compare_accounts with no handle, or with a handle outside the
\* handle pattern anywhere in its list, ends with InvalidParams and no
\* result before any lookup or page request, for the valid handles too.
C22_ValidatesWholeList ==
    /\ owner = 1 /\ name = "compare_accounts" /\ hpc # "start"
    /\ \/ args.accounts.kind = "missing"
       \/ /\ args.accounts.kind = "array"
          /\ \/ args.accounts.list = <<>>
             \/ \E i \in 1..Len(args.accounts.list) : ~MatchesHandle(args.accounts.list[i])
    => /\ Ran(1)
       /\ result[1].kind = "error" /\ result[1].code = "InvalidParams"
       /\ result[1].value = <<>>
       /\ \A op \in LookupOps : CountOf(1, op) = 0

\* C22 happens: a malformed handle after a valid one has ended the call
\* with the valid one not looked up.
C22_Witness ==
    /\ Ran(1) /\ name = "compare_accounts"
    /\ args.accounts = [kind |-> "array", list |-> <<HandleA, HandleBad>>]
    /\ result[1].code = "InvalidParams"
    /\ CountOf(1, "user.getIdByUsername") = 0

\* C23: a call that starts on an unauthenticated session requests the login,
\* and requests it once, whatever logins have failed before; when the login
\* succeeds the session is authenticated, the call goes on to its handler,
\* and the session stays authenticated while the call is dispatched and
\* runs.
C23_EachCallLogsIn ==
    [][\A c \in Calls :
          /\ cpc[c] = "idle" /\ cpc'[c] # "idle" /\ ~isLoggedIn
             => cpc'[c] = "login" /\ trace'[c] = <<"authenticate">>
          /\ cpc[c] = "login" => trace'[c] = <<"authenticate">>
          /\ Cardinality({i \in 1..Len(trace'[c]) : trace'[c][i] = "authenticate"}) <= 1
          /\ cpc[c] = "login" /\ cpc'[c] = "ready" => isLoggedIn'
          /\ cpc[c] = "ready" /\ cpc'[c] # "ready" => cpc'[c] = "run" /\ owner' = c
          /\ cpc[c] \in {"ready", "run"} => isLoggedIn']_vars

\* C23 happens: after a failed login, a call's own login has succeeded and
\* the call stands before its handler.
C23_Witness ==
    \E c \in Calls :
        /\ loginFailed /\ isLoggedIn
        /\ cpc[c] = "ready" /\ trace[c] = <<"authenticate">>

\* C24: the step in which a call's login fails ends the call with an
\* internal error, its login the only remote operation it requested and no
\* handler entered; a call that has ended requests nothing more and no
\* handler is entered for it.
C24_FailedLoginRunsNoHandler ==
    [][\A c \in Calls :
          /\ cpc[c] = "login" /\ lastErr'[c] # ""
             => /\ cpc'[c] = "done"
                /\ result'[c].kind = "error" /\ result'[c].code = "InternalError"
                /\ trace'[c] = <<"authenticate">>
                /\ owner' # c
          /\ cpc[c] = "done"
             => /\ cpc'[c] \in {"done", "idle"}
                /\ trace'[c] = trace[c] \/ cpc'[c] = "idle"
                /\ owner # c => owner' # c]_vars

\* C24 happens: a call has ended at its failed login while the session is
\* authenticated and the handler of the other call runs.
C24_Witness ==
    \E c \in Calls :
        /\ cpc[c] = "done" /\ lastErr[c] # "" /\ trace[c] = <<"authenticate">>
        /\ owner \notin {0, c} /\ isLoggedIn

\* The response of an auth-invalidation failure.
InvalidationMsg == "Instagram login required or challenge encountered"

\* C25: the step that ends a call, at its login or in its handler, with
\* any outcome but the auth-invalidation failure leaves the session as it
\* was: a value, InvalidParams for an invalid input or a resource not
\* found, MethodNotFound for an unknown tool, InternalError for a rate
\* limit, a failed login or an unexpected error.
C25_OutcomesKeepSession ==
    [][\A c \in Calls :
          /\ cpc[c] \in {"login", "run"} /\ cpc'[c] = "done"
          /\ result'[c].msg # InvalidationMsg
          => isLoggedIn' = isLoggedIn]_vars

\* C25 happens: a call of an authenticated session has ended at a rate
\* limited page request.
C25_Witness ==
    \E c \in Calls :
        /\ Ran(c) /\ isLoggedIn
        /\ lastErr[c] = "IgRequestsLimitError"
        /\ result[c].code = "InternalError"

\* C26: extract_demographics over an empty sample returns the 'no users'
\* message and computes no ratio, and every ratio it computes has a
\* denominator above 0; generate_engagement_report with no post in the
\* period returns the message and a summary of zeros; compare_accounts
\* shows the rate 0 for an account whose posts feed served no post.
C26_NoAggregateOverNothing ==
    /\ Ran(1) /\ name = "extract_demographics" /\ result[1].kind = "ok"
       => LET value == result[1].value
          IN  /\ Len(loc.fetchedUsers) = 0 => value.message /\ value.ratioDen = 0
              /\ ~value.message => value.ratioDen > 0
    /\ Ran(1) /\ name = "generate_engagement_report" /\ result[1].kind = "ok"
       /\ SelectSeq(loc.allPosts, InPeriod) = <<>>
       => LET value == result[1].value
          IN  /\ value.message
              /\ value.postsAnalyzed = 0
              /\ value.totalLikes = 0 /\ value.totalComments = 0
              /\ value.avgEngagementRate = 0
    /\ owner = 1 /\ name = "compare_accounts" /\ hpc \in {"getId", "end"}
       /\ trace[1][Len(trace[1])] = "feed.items"
       /\ loc.outcomes[Len(loc.outcomes)] = "succeeded"
       /\ served[Len(served)] = 0
       => loc.comparisonResults[args.accounts.list[loc.i - 1]].engagementRate = {0}

\* C26 happens: compare_accounts has returned the rate 0 for an account
\* with followers whose posts feed served no post.
C26_Witness ==
    /\ Ran(1) /\ name = "compare_accounts" /\ result[1].kind = "ok"
    /\ Positive(loc.followerCount) /\ served = <<0>>
    /\ result[1].value[HandleA].engagementRate = {0}

====
